---- MODULE Spec2Model ----
(***************************************************************************)
(* Graph assembly of try1.py: build_graph reads two node tables and one    *)
(* relation table into a networkx DiGraph; main hands the graph to the     *)
(* exporter.  One action per step of build_graph: a table's column         *)
(* resolution, one row of a node table, one row of the relation table, the *)
(* return.  Tables are pandas DataFrames: the columns are chosen when the  *)
(* table is opened and each row when iterrows yields it.                   *)
(*                                                                         *)
(* Values.  A cell is a Python str, written as the sequence of its         *)
(* characters ("ab" is <<"a","b">>), or the float nan pandas stores for a  *)
(* missing cell.  Non-str values are one-element sequences whose element   *)
(* is a tagged token, so they differ from every str.                       *)
(***************************************************************************)
EXTENDS Naturals, Sequences, FiniteSets

VARIABLES
    pc,          \* position in build_graph / main
    table,       \* which DataFrame was opened last: its label, "none" at first
    columns,     \* df.columns of that table
    id_col,      \* add_nodes_from_df: resolved id column
    type_col,    \* add_nodes_from_df: resolved type column, or None
    s_col,       \* build_graph: resolved source column
    t_col,       \* build_graph: resolved target column
    rel_col,     \* build_graph: resolved relationship column, or None
    nodes,       \* G._node: insertion-ordered id -> attribute dict
    edges,       \* G._adj: insertion-ordered (u, v) -> attribute dict
    error,       \* the exception that left build_graph, <<>> when none
    result,      \* main's G: <<>> until build_graph returns, then <<graph>>
    nodeRows,    \* node-table rows iterated so far (both tables)
    relRows,     \* relation-table rows iterated so far
    last,        \* history: the row just iterated and what was read from it
    declared,    \* history: str(id) of every node-table row iterated
    endpoints,   \* history: str(src), str(tgt) of every relation row iterated
    firstType    \* history: id -> type cell of the first node row of that id
                 \*          whose type cell is a non-empty string

vars == <<pc, table, columns, id_col, type_col, s_col, t_col, rel_col, nodes, edges,
          error, result, nodeRows, relRows, last, declared, endpoints, firstType>>

----------------------------------------------------------------------------
(* Bounds of the model. *)

\* The rows iterated in one run of build_graph, over its three tables.
MaxRows == 2

\* The length of a property cell drawn for the property extractor alone.
MaxCellLen == 3

----------------------------------------------------------------------------
(* Python values. *)

None == "None"                    \* a column variable holding None
PyNone == <<"NoneType:None">>     \* the value None
NaN == <<"float:nan">>            \* pandas' missing cell
PyTrue == <<"bool:True">>         \* the value True
EmptyStr == <<>>                  \* ''

\* str(x) as build_graph applies it to an id cell: a str is itself, nan is 'nan'.
Str(v) == IF v = NaN THEN <<"n", "a", "n">> ELSE v

\* bool(x): None and '' are falsy; a non-empty str and the float nan are truthy.
Truthy(v) == v /= PyNone /\ v /= EmptyStr

Unknown == <<"u", "n", "k", "n", "o", "w", "n">>
RELATED_TO == <<"R", "E", "L", "A", "T", "E", "D", "_", "T", "O">>

----------------------------------------------------------------------------
(* dict operations. *)

EmptyDict == [k \in {} |-> EmptyStr]

\* d.update(p): p's keys are added, p's value wins on a key of both.
Update(d, p) ==
    [k \in DOMAIN d \cup DOMAIN p |-> IF k \in DOMAIN p THEN p[k] ELSE d[k]]

\* d.setdefault(k, v): sets k only when d has no key k.
SetDefault(d, k, v) ==
    IF k \in DOMAIN d THEN d ELSE Update(d, [x \in {k} |-> v])

\* {k: v}
Dict1(k, v) == [x \in {k} |-> v]

----------------------------------------------------------------------------
(* Column resolution: the first candidate that is a column, else None. *)

\* Mutant of FirstPresent: the last candidate that is a column wins.
RECURSIVE LastPresent(_, _)
LastPresent(cands, cols) ==
    IF cands = <<>> THEN None
    ELSE IF cands[Len(cands)] \in cols THEN cands[Len(cands)]
    ELSE LastPresent(SubSeq(cands, 1, Len(cands) - 1), cols)

RECURSIVE FirstPresent(_, _)
FirstPresent(cands, cols) ==
    IF cands = <<>> THEN None
    ELSE IF Head(cands) \in cols THEN Head(cands)
    ELSE FirstPresent(Tail(cands), cols)

IdAliases == <<"id", "node_id", "Id", "ID">>
TypeAliases == <<"type", "node_type", "Type">>
SourceAliases == <<"source_id", "source", "from", "From">>
TargetAliases == <<"target_id", "target", "to", "To">>
RelAliases == <<"relationship_type", "rel_type", "type", "relationship">>

----------------------------------------------------------------------------
(* json.loads on the characters the model's cells are written in: digits,  *)
(* '-', brackets, braces, ',', whitespace and letters (no quote, colon,    *)
(* point or exponent, and none of the words true, false, null), so a JSON  *)
(* value is an integer, an array of values or the empty object.  A parser  *)
(* position is an index into s; 0 is the parse error.                      *)

Whitespace == {" ", "\t", "\n"}
Digits == {"0", "1", "2", "3", "4", "5", "6", "7", "8", "9"}

RECURSIVE SkipWs(_, _)
SkipWs(s, i) ==
    IF i <= Len(s) /\ s[i] \in Whitespace THEN SkipWs(s, i + 1) ELSE i

RECURSIVE SkipDigits(_, _)
SkipDigits(s, i) ==
    IF i <= Len(s) /\ s[i] \in Digits THEN SkipDigits(s, i + 1) ELSE i

\* An integer literal starting at i: position after it, or 0.
JsonNumber(s, i) ==
    LET j == IF i <= Len(s) /\ s[i] = "-" THEN i + 1 ELSE i
    IN  IF j > Len(s) \/ s[j] \notin Digits THEN 0
        ELSE IF s[j] = "0" THEN j + 1
        ELSE SkipDigits(s, j)

RECURSIVE JsonValue(_, _)
RECURSIVE JsonItems(_, _)
\* A value starting at i: position after it, or 0.
JsonValue(s, i) ==
    IF i > Len(s) THEN 0
    ELSE IF s[i] = "[" THEN
        LET j == SkipWs(s, i + 1)
        IN  IF j <= Len(s) /\ s[j] = "]" THEN j + 1 ELSE JsonItems(s, j)
    ELSE IF s[i] = "{" THEN
        LET j == SkipWs(s, i + 1)
        IN  IF j <= Len(s) /\ s[j] = "}" THEN j + 1 ELSE 0
    ELSE JsonNumber(s, i)
\* The items of an array from i, up to and including its ']': position after, or 0.
JsonItems(s, i) ==
    LET e == JsonValue(s, i)
        j == IF e = 0 THEN 0 ELSE SkipWs(s, e)
    IN  IF j = 0 \/ j > Len(s) THEN 0
        ELSE IF s[j] = "]" THEN j + 1
        ELSE IF s[j] = "," THEN JsonItems(s, SkipWs(s, j + 1))
        ELSE 0

\* Whether json.loads(s) returns (rather than raises).
JsonValid(s) ==
    LET i == SkipWs(s, 1)
        e == JsonValue(s, i)
    IN  e /= 0 /\ SkipWs(s, e) = Len(s) + 1

\* The decoded value: a list or dict, written as its tag followed by its
\* tokens without the insignificant whitespace.
JsonLoads(s) ==
    <<"json:">> \o SelectSeq(s, LAMBDA c : c \notin Whitespace)

\* s.strip()
RECURSIVE LStrip(_)
LStrip(s) ==
    IF s /= <<>> /\ Head(s) \in Whitespace THEN LStrip(Tail(s)) ELSE s
RECURSIVE RStrip(_)
RStrip(s) ==
    IF s /= <<>> /\ s[Len(s)] \in Whitespace
    THEN RStrip(SubSeq(s, 1, Len(s) - 1)) ELSE s
Strip(s) == RStrip(LStrip(s))

\* isinstance(v, str): every value that is not a str is a tagged token.
IsStr(v) == v \notin {NaN, PyNone, PyTrue} /\ (v = <<>> \/ v[1] /= "json:")

\* Mutant of DecodeValue: no try/except around json.loads, whose error
\* takes the place of the value.
DecodeValueUnguarded(v) ==
    IF ~IsStr(v) THEN v
    ELSE LET s == Strip(v)
         IN  IF s /= <<>>
                /\ (   (s[1] = "{" /\ s[Len(s)] = "}")
                    \/ (s[1] = "[" /\ s[Len(s)] = "]"))
             THEN IF JsonValid(s) THEN JsonLoads(s)
                  ELSE <<"raise:JSONDecodeError">>
             ELSE v

\* The loop body of parse_properties_from_row for one value.
DecodeValue(v) ==
    IF ~IsStr(v) THEN v
    ELSE LET s == Strip(v)
         IN  IF s /= <<>>
                /\ (   (s[1] = "{" /\ s[Len(s)] = "}")
                    \/ (s[1] = "[" /\ s[Len(s)] = "]"))
                /\ JsonValid(s)
             THEN JsonLoads(s)
             ELSE v

\* Mutant of parse_properties_from_row: drop_cols is not dropped.
parse_properties_keeping_all(row, drop_cols) ==
    LET kept == {k \in DOMAIN row : row[k] /= EmptyStr /\ row[k] /= NaN}
    IN  [k \in kept |-> DecodeValue(row[k])]

\* parse_properties_from_row(row, drop_cols): the row without drop_cols, ''
\* replaced by NA, NA dropped, bracketed strings decoded.
parse_properties_from_row(row, drop_cols) ==
    LET kept == {k \in DOMAIN row :
                    k \notin drop_cols /\ row[k] /= EmptyStr /\ row[k] /= NaN}
    IN  [k \in kept |-> DecodeValue(row[k])]

----------------------------------------------------------------------------
(* networkx.DiGraph: _node maps a node to its attribute dict, _adj maps an *)
(* ordered pair to the one attribute dict of that edge.  Both are dicts in *)
(* insertion order, written as sequences of entries.                       *)

\* Mutant of HasNode: the membership test never finds the node.
HasNodeNever(ns, n) == FALSE

\* n in G
HasNode(ns, n) == \E i \in 1..Len(ns) : ns[i].id = n
NodeAttrs(ns, n) == ns[CHOOSE i \in 1..Len(ns) : ns[i].id = n].attrs

\* G.nodes[n]: the attribute dict of n replaced by d.
SetNodeAttrs(ns, n, d) ==
    [i \in 1..Len(ns) |-> IF ns[i].id = n THEN [id |-> n, attrs |-> d] ELSE ns[i]]

\* G.add_node(n, **attrs): a new entry, or an update of n's entry.
add_node(ns, n, attrs) ==
    IF HasNode(ns, n)
    THEN SetNodeAttrs(ns, n, Update(NodeAttrs(ns, n), attrs))
    ELSE Append(ns, [id |-> n, attrs |-> attrs])

HasEdge(es, u, v) == \E i \in 1..Len(es) : es[i].u = u /\ es[i].v = v
EdgeAttrs(es, u, v) ==
    es[CHOOSE i \in 1..Len(es) : es[i].u = u /\ es[i].v = v].attrs

\* G.add_edge(u, v, **attrs) with u and v already nodes: a DiGraph keeps one
\* edge per ordered pair, so a pair it already has gets its dict updated.
add_edge(es, u, v, attrs) ==
    IF HasEdge(es, u, v)
    THEN [i \in 1..Len(es) |->
            IF es[i].u = u /\ es[i].v = v
            THEN [u |-> u, v |-> v, attrs |-> Update(es[i].attrs, attrs)]
            ELSE es[i]]
    ELSE Append(es, [u |-> u, v |-> v, attrs |-> attrs])

----------------------------------------------------------------------------
(* The tables the model draws its inputs from. *)

IdCells == {<<"a">>, NaN}
LabelCells == {EmptyStr, NaN, <<"p">>, <<"q">>}
PropCells == {EmptyStr, <<"x">>, <<"y">>}

AliasSet(aliases) == {aliases[i] : i \in 1..Len(aliases)}

\* The cells a column may hold, by the kind of its header.
CellsOf(c) ==
    IF c \in AliasSet(IdAliases) \cup AliasSet(SourceAliases)
             \cup AliasSet(TargetAliases) \cup {"src", "dst"}
    THEN IdCells
    ELSE IF c \in {"type", "relationship_type"}
    THEN LabelCells
    ELSE PropCells

NodeSchemas ==
    { {"id", "type", "name"},
      {"id", "type", "node_type"},
      {"node_id", "ID"},
      {"ID", "placeholder"},
      {"type", "name"} }

RelSchemas ==
    { {"source_id", "target_id", "relationship_type"},
      {"source_id", "target_id", "relationship_type", "relationship"},
      {"source", "from", "target", "to"},
      {"src", "dst"},
      {"source_id", "dst"} }

\* The rows a DataFrame with columns cs can hold.
Rows(cs) == {r \in [cs -> IdCells \cup LabelCells \cup PropCells] :
                \A c \in cs : r[c] \in CellsOf(c)}

NoRow == [kind |-> "none", row |-> EmptyDict]

----------------------------------------------------------------------------
(* add_nodes_from_df *)

\* The KeyError of a node table without an id column.
NoIdColumn(source_label) ==
    [type |-> "KeyError", table |-> source_label, field |-> "id column"]

\* The KeyError of a relation table without a source or a target column.
NoSourceTarget ==
    [type |-> "KeyError", table |-> "Relations CSV",
     field |-> "source and target columns"]

\* node_type = row[type_col] if type_col and type_col in row.index else None
NodeTypeOf(row, tc) ==
    IF tc /= None /\ tc \in DOMAIN row THEN row[tc] ELSE PyNone

\* Mutant of MergeAttrs: the entity's dict is replaced by the row's.
MergeAttrsReplacing(attrs, node_type, props) ==
    Update(IF Truthy(node_type) THEN Dict1("node_type", node_type) ELSE EmptyDict,
           props)

\* Mutant of MergeAttrs: the earlier value wins on a key of both.
MergeAttrsKeepEarlier(attrs, node_type, props) ==
    Update(props,
           IF Truthy(node_type)
           THEN SetDefault(attrs, "node_type", node_type)
           ELSE attrs)

\* The branch for a node_id already in G: setdefault of the type, then
\* update with the row's properties.
MergeAttrs(attrs, node_type, props) ==
    Update(IF Truthy(node_type)
           THEN SetDefault(attrs, "node_type", node_type)
           ELSE attrs,
           props)

\* The branch for a new node_id: the attributes it is added with.
NewAttrs(node_type, props) ==
    Update(IF Truthy(node_type) THEN Dict1("node_type", node_type) ELSE EmptyDict,
           props)

\* The body of the loop over a node table's rows.
UpsertRow(ns, row, ic, tc) ==
    LET node_id == Str(row[ic])
        node_type == NodeTypeOf(row, tc)
        props == parse_properties_from_row(row, {ic, tc})
    IN  IF HasNode(ns, node_id)
        THEN SetNodeAttrs(ns, node_id,
                          MergeAttrs(NodeAttrs(ns, node_id), node_type, props))
        ELSE add_node(ns, node_id, NewAttrs(node_type, props))

NodeLabel == [nodes_doc |-> "nodes_doc", nodes_draw |-> "nodes_draw"]
RowsPc == [nodes_doc |-> "doc_rows", nodes_draw |-> "draw_rows"]
AfterPc == [nodes_doc |-> "nodes_draw", doc_rows |-> "nodes_draw",
            nodes_draw |-> "relations", draw_rows |-> "relations"]

\* add_nodes_from_df(None, ...): returns at once.
NodeTableNone ==
    /\ pc \in {"nodes_doc", "nodes_draw"}
    /\ pc' = AfterPc[pc]
    /\ last' = NoRow
    /\ UNCHANGED <<table, columns, id_col, type_col, s_col, t_col, rel_col, nodes, edges,
                   error, result, nodeRows, relRows, declared, endpoints, firstType>>

\* add_nodes_from_df(df, ...) up to its loop: the id column or the KeyError,
\* then the type column.
NodeTableResolve ==
    /\ pc \in {"nodes_doc", "nodes_draw"}
    /\ table' = NodeLabel[pc]
    /\ \E cs \in NodeSchemas :
         LET ic == FirstPresent(IdAliases, cs)
         IN  /\ columns' = cs
             /\ IF ic = None
                   THEN /\ pc' = "raised"
                        /\ error' = <<NoIdColumn(NodeLabel[pc])>>
                        /\ UNCHANGED <<id_col, type_col>>
                   ELSE /\ pc' = RowsPc[pc]
                        /\ id_col' = ic
                        /\ type_col' = FirstPresent(TypeAliases, cs)
                        /\ UNCHANGED error
    /\ last' = NoRow
    /\ UNCHANGED <<s_col, t_col, rel_col, nodes, edges, result, nodeRows, relRows,
                   declared, endpoints, firstType>>

\* One iteration of the loop over df.iterrows().
NodeRow ==
    /\ pc \in {"doc_rows", "draw_rows"}
    /\ nodeRows + relRows < MaxRows
    /\ \E row \in Rows(columns) :
         LET node_id == Str(row[id_col])
             cell == NodeTypeOf(row, type_col)
         IN  /\ nodes' = UpsertRow(nodes, row, id_col, type_col)
             /\ last' = [kind |-> "node", row |-> row]
             /\ declared' = declared \cup {node_id}
             /\ firstType' =
                  IF cell \notin {PyNone, EmptyStr, NaN} /\ node_id \notin DOMAIN firstType
                  THEN Update(firstType, Dict1(node_id, cell))
                  ELSE firstType
    /\ nodeRows' = nodeRows + 1
    /\ UNCHANGED <<pc, table, columns, id_col, type_col, s_col, t_col, rel_col, edges,
                   error, result, relRows, endpoints>>

\* The loop over a node table ends: add_nodes_from_df returns.
NodeTableEnd ==
    /\ pc \in {"doc_rows", "draw_rows"}
    /\ pc' = AfterPc[pc]
    /\ last' = NoRow
    /\ UNCHANGED <<table, columns, id_col, type_col, s_col, t_col, rel_col, nodes, edges,
                   error, result, nodeRows, relRows, declared, endpoints, firstType>>

----------------------------------------------------------------------------
(* build_graph: the relation table *)

\* Mutant of EnsureNode: no placeholder is created.
EnsureNodeSkipped(ns, n) == ns

\* if n not in G: G.add_node(n, node_type="unknown", placeholder=True)
EnsureNode(ns, n) ==
    IF HasNode(ns, n) THEN ns
    ELSE add_node(ns, n, Update(Dict1("node_type", Unknown),
                                Dict1("placeholder", PyTrue)))

\* Mutant of RelTypeOf: no default, the type is None without a column.
RelTypeOfNoDefault(row, rc) ==
    IF rc /= None /\ rc \in DOMAIN row THEN row[rc] ELSE PyNone

\* rel_type = row[rel_col] if rel_col and rel_col in row.index else "RELATED_TO"
RelTypeOf(row, rc) ==
    IF rc /= None /\ rc \in DOMAIN row THEN row[rc] ELSE RELATED_TO

\* attrs = {"relationship": rel_type}; attrs.update(edge_props)
EdgeAttrsOf(row, sc, tc, rc) ==
    Update(Dict1("relationship", RelTypeOf(row, rc)),
           parse_properties_from_row(row, {sc, tc, rc}))

\* Mutant of MissingEndpointColumn: the check is gone.
MissingEndpointColumnUnchecked(sc, tc) == FALSE

\* if s_col is None or t_col is None: raise KeyError(...)
MissingEndpointColumn(sc, tc) == sc = None \/ tc = None

\* relations_df is None: build_graph returns G.
RelTableNone ==
    /\ pc = "relations"
    /\ pc' = "returned"
    /\ result' = <<[nodes |-> nodes, edges |-> edges]>>
    /\ last' = NoRow
    /\ UNCHANGED <<table, columns, id_col, type_col, s_col, t_col, rel_col, nodes, edges,
                   error, nodeRows, relRows, declared, endpoints, firstType>>

\* The source and target columns or the KeyError, then the relationship column.
RelTableResolve ==
    /\ pc = "relations"
    /\ table' = "relations"
    /\ \E cs \in RelSchemas :
         LET sc == FirstPresent(SourceAliases, cs)
             tc == FirstPresent(TargetAliases, cs)
         IN  /\ columns' = cs
             /\ IF MissingEndpointColumn(sc, tc)
                   THEN /\ pc' = "raised"
                        /\ error' = <<NoSourceTarget>>
                        /\ UNCHANGED <<s_col, t_col, rel_col>>
                   ELSE /\ pc' = "rel_rows"
                        /\ s_col' = sc
                        /\ t_col' = tc
                        /\ rel_col' = FirstPresent(RelAliases, cs)
                        /\ UNCHANGED error
    /\ last' = NoRow
    /\ UNCHANGED <<id_col, type_col, nodes, edges, result, nodeRows, relRows,
                   declared, endpoints, firstType>>

\* One iteration of the loop over relations_df.iterrows().
RelRow ==
    /\ pc = "rel_rows"
    /\ nodeRows + relRows < MaxRows
    /\ \E row \in Rows(columns) :
         LET src == Str(row[s_col])
             tgt == Str(row[t_col])
         IN  /\ nodes' = EnsureNode(EnsureNode(nodes, src), tgt)
             /\ edges' = add_edge(edges, src, tgt,
                                  EdgeAttrsOf(row, s_col, t_col, rel_col))
             /\ last' = [kind |-> "rel", row |-> row]
             /\ endpoints' = endpoints \cup {src, tgt}
    /\ relRows' = relRows + 1
    /\ UNCHANGED <<pc, table, columns, id_col, type_col, s_col, t_col, rel_col, error,
                   result, nodeRows, declared, firstType>>

\* The loop over the relation table ends: build_graph returns G to main.
RelTableEnd ==
    /\ pc = "rel_rows"
    /\ pc' = "returned"
    /\ result' = <<[nodes |-> nodes, edges |-> edges]>>
    /\ last' = NoRow
    /\ UNCHANGED <<table, columns, id_col, type_col, s_col, t_col, rel_col, nodes, edges,
                   error, nodeRows, relRows, declared, endpoints, firstType>>

----------------------------------------------------------------------------
(* export_pyvis(G, ...) as main calls it on the graph build_graph returned. *)

\* d.get(k, default)
Get(d, k, default) == IF k \in DOMAIN d THEN d[k] ELSE default

\* a or b
Or(a, b) == IF Truthy(a) THEN a ELSE b

NA == <<"N", "/", "A">>
Default == <<"d", "e", "f", "a", "u", "l", "t">>

\* net.add_node(node_id, label=..., title=..., group=...): the title holds one
\* line for the type and one per other item of the node's dict.
NetNode(n) ==
    [id    |-> n.id,
     label |-> Or(Or(Get(n.attrs, "part_number", PyNone),
                     Get(n.attrs, "name", PyNone)), n.id),
     title |-> [type  |-> Get(n.attrs, "node_type", NA),
                items |-> [k \in DOMAIN n.attrs \ {"node_type"} |-> n.attrs[k]]],
     group |-> Get(n.attrs, "node_type", Default)]

\* net.add_edge(u, v, title=..., label=...)
NetEdge(e) ==
    [u     |-> e.u,
     v     |-> e.v,
     title |-> e.attrs,
     label |-> Get(e.attrs, "relationship",
                   Get(e.attrs, "relationship_type", EmptyStr))]

\* Mutant of export_pyvis: the node loop pops node_type from each node's dict
\* instead of reading it.
export_pyvis_popping ==
    /\ pc = "returned"
    /\ pc' = "exported"
    /\ IF Len(nodes) = 0
       THEN /\ last' = [kind |-> "export", written |-> FALSE]
            /\ UNCHANGED <<nodes, result>>
       ELSE /\ last' = [kind |-> "export", written |-> TRUE,
                        nodes |-> [i \in 1..Len(nodes) |-> NetNode(nodes[i])],
                        edges |-> [i \in 1..Len(edges) |-> NetEdge(edges[i])]]
            /\ nodes' = [i \in 1..Len(nodes) |->
                           [id |-> nodes[i].id,
                            attrs |-> [k \in DOMAIN nodes[i].attrs \ {"node_type"}
                                         |-> nodes[i].attrs[k]]]]
            /\ result' = <<[nodes |-> nodes', edges |-> edges]>>
    /\ UNCHANGED <<table, columns, id_col, type_col, s_col, t_col, rel_col, edges,
                   error, nodeRows, relRows, declared, endpoints, firstType>>

\* A graph of no nodes returns at once; otherwise the network is filled from
\* G.nodes(data=True) and G.edges(data=True) and written out.
export_pyvis ==
    /\ pc = "returned"
    /\ pc' = "exported"
    /\ IF Len(nodes) = 0
       THEN last' = [kind |-> "export", written |-> FALSE]
       ELSE last' = [kind |-> "export", written |-> TRUE,
                     nodes |-> [i \in 1..Len(nodes) |-> NetNode(nodes[i])],
                     edges |-> [i \in 1..Len(edges) |-> NetEdge(edges[i])]]
    /\ UNCHANGED <<table, columns, id_col, type_col, s_col, t_col, rel_col, nodes, edges,
                   error, result, nodeRows, relRows, declared, endpoints, firstType>>

----------------------------------------------------------------------------

Init ==
    /\ pc = "nodes_doc"
    /\ table = "none"
    /\ columns = {}
    /\ id_col = None
    /\ type_col = None
    /\ s_col = None
    /\ t_col = None
    /\ rel_col = None
    /\ nodes = <<>>
    /\ edges = <<>>
    /\ error = <<>>
    /\ result = <<>>
    /\ nodeRows = 0
    /\ relRows = 0
    /\ last = NoRow
    /\ declared = {}
    /\ endpoints = {}
    /\ firstType = EmptyDict

Next ==
    \/ NodeTableNone
    \/ NodeTableResolve
    \/ NodeRow
    \/ NodeTableEnd
    \/ RelTableNone
    \/ RelTableResolve
    \/ RelRow
    \/ RelTableEnd
    \/ export_pyvis

Spec == Init /\ [][Next]_vars

----------------------------------------------------------------------------
(* parse_properties_from_row on its own: one row of an opened table, its   *)
(* property cells drawn from every string over Alphabet up to MaxCellLen   *)
(* (and nan), its consumed cells from the cells of their columns.          *)

Alphabet == {" ", "x", "1", ",", "[", "]", "{", "}"}
Strings(n) == UNION {[1..k -> Alphabet] : k \in 0..n}
RichCells == Strings(MaxCellLen) \cup {NaN}

\* drop_cols as the two callers pass it.
DropCols ==
    IF table = "relations" THEN {s_col, t_col, rel_col} ELSE {id_col, type_col}

ExtractNodeSchemas == { {"id", "type", "name"}, {"node_id", "name"} }
ExtractRelSchemas ==
    { {"source", "target", "note"},
      {"source_id", "target_id", "relationship_type", "relationship"} }

\* The rows of the opened table: consumed cells by column, property cells rich.
ExtractRows ==
    { Update(a, b) :
        a \in Rows(columns \cap DropCols),
        b \in [columns \ DropCols -> RichCells] }

ExtractInit ==
    /\ pc = "extract"
    /\ table \in {"nodes_doc", "relations"}
    /\ columns \in (IF table = "relations" THEN ExtractRelSchemas
                                            ELSE ExtractNodeSchemas)
    /\ id_col = IF table = "relations" THEN None
                ELSE FirstPresent(IdAliases, columns)
    /\ type_col = IF table = "relations" THEN None
                  ELSE FirstPresent(TypeAliases, columns)
    /\ s_col = IF table = "relations" THEN FirstPresent(SourceAliases, columns)
               ELSE None
    /\ t_col = IF table = "relations" THEN FirstPresent(TargetAliases, columns)
               ELSE None
    /\ rel_col = IF table = "relations" THEN FirstPresent(RelAliases, columns)
                 ELSE None
    /\ nodes = <<>>
    /\ edges = <<>>
    /\ error = <<>>
    /\ result = <<>>
    /\ nodeRows = 0
    /\ relRows = 0
    /\ last = NoRow
    /\ declared = {}
    /\ endpoints = {}
    /\ firstType = EmptyDict

\* props = parse_properties_from_row(row, drop_cols=[...])
ExtractRow ==
    /\ pc = "extract"
    /\ pc' = "extracted"
    /\ \E row \in ExtractRows :
         last' = [kind |-> "props", row |-> row,
                  props |-> parse_properties_from_row(row, DropCols)]
    /\ UNCHANGED <<table, columns, id_col, type_col, s_col, t_col, rel_col, nodes,
                   edges, error, result, nodeRows, relRows, declared, endpoints,
                   firstType>>

SpecExtract == ExtractInit /\ [][ExtractRow]_vars

----------------------------------------------------------------------------
(* Properties. *)

NodeIds(ns) == {ns[i].id : i \in 1..Len(ns)}

\* C1: the graph holds at most one entity per id, whatever rows were read.
C1_OneEntityPerId ==
    \A i, j \in 1..Len(nodes) : nodes[i].id = nodes[j].id => i = j

\* Two rows named the same id (two node rows, or a node row and a relation
\* endpoint) and the graph holds that id once.
C1_Witness ==
    /\ \/ nodeRows = 2 /\ Cardinality(declared) = 1
       \/ declared \cap endpoints /= {}
    /\ Cardinality(NodeIds(nodes)) = Len(nodes)

\* C2 (as claimed): a relation row whose ordered pair already has an edge of
\* another relation type adds a further edge and leaves the earlier ones as
\* they were, so that there are as many edges as relation rows.
C2_EdgesAllRetained ==
    [][(/\ relRows' = relRows + 1
        /\ HasEdge(edges, Str(last'.row[s_col]), Str(last'.row[t_col]))
        /\ LET was == EdgeAttrs(edges, Str(last'.row[s_col]),
                                Str(last'.row[t_col]))["relationship"]
               now == RelTypeOf(last'.row, rel_col)
           IN  was /= now /\ {was, now} \cap {EmptyStr, NaN} = {})
       => (/\ Len(edges') = Len(edges) + 1
           /\ Len(edges') = relRows'
           /\ \A i \in 1..Len(edges) : edges'[i] = edges[i])]_vars

\* C3: every edge's source and target are ids of entities of the graph.
C3_NoDanglingEdge ==
    \A i \in 1..Len(edges) :
        HasNode(nodes, edges[i].u) /\ HasNode(nodes, edges[i].v)

\* An edge stands whose endpoint no node table declared.
C3_Witness ==
    \E i \in 1..Len(edges) :
        edges[i].v \notin declared /\ HasNode(nodes, edges[i].v)

\* C4 (as claimed): an entity's type is the type cell of the first node row of
\* its id that supplies a non-absent type, and stays so.  Stated of the entity
\* a node row has just been read into, for a table none of whose property
\* columns is named node_type.
C4_TypeFirstNonAbsentWins ==
    (last.kind = "node" /\ "node_type" \notin columns \ {type_col})
    => LET n == Str(last.row[id_col])
       IN  n \in DOMAIN firstType
           => (/\ "node_type" \in DOMAIN NodeAttrs(nodes, n)
               /\ NodeAttrs(nodes, n)["node_type"] = firstType[n])

C6_EntitySetAndPlaceholders ==
    /\ NodeIds(nodes) = declared \cup endpoints
    /\ \A n \in endpoints \ declared :
          NodeAttrs(nodes, n) =
              Update(Dict1("node_type", Unknown), Dict1("placeholder", PyTrue))
    /\ \A n \in declared : "placeholder" \notin DOMAIN NodeAttrs(nodes, n)

\* C7 (supporting): no node row is ever read once a placeholder exists, so
\* build_graph never upserts an id that was created as a placeholder.
PlaceholderNeverUpserted ==
    (\E i \in 1..Len(nodes) :
        "placeholder" \in DOMAIN nodes[i].attrs
        /\ nodes[i].attrs["placeholder"] = PyTrue)
    => pc \in {"rel_rows", "returned", "exported"}

\* C8: a relation table with neither a source nor a target column raises the
\* KeyError that names the source and target columns, with no relation row
\* read and no edge added, and build_graph returns nothing.
C8_MissingSourceTargetRaises ==
    (/\ table = "relations"
     /\ FirstPresent(SourceAliases, columns) = None
     /\ FirstPresent(TargetAliases, columns) = None)
    => (/\ pc = "raised"
        /\ error = <<NoSourceTarget>>
        /\ relRows = 0
        /\ edges = <<>>
        /\ result = <<>>)

\* The relation table {src, dst} was opened after a node row was read.
C8_Witness ==
    /\ table = "relations"
    /\ columns = {"src", "dst"}
    /\ pc = "raised"
    /\ nodeRows > 0

\* C9 (as claimed): when a table fails schema resolution, the entities of the
\* tables read before it are in the result the caller holds.
C9_FailedTableKeepsOthers ==
    (pc = "raised" /\ nodes /= <<>>)
    => (result /= <<>> /\ result[1].nodes = nodes)

\* C10 (as claimed): with the relation-type column resolved, a row whose
\* relation-type cell is the empty string builds an edge of type RELATED_TO.
C10_EmptyCellIsSentinel ==
    (/\ last.kind = "rel"
     /\ rel_col /= None
     /\ last.row[rel_col] = EmptyStr)
    => EdgeAttrs(edges, Str(last.row[s_col]), Str(last.row[t_col]))["relationship"]
         = RELATED_TO

\* C11 (as claimed): a property cell that is all whitespace is dropped like an
\* empty-string cell: the extracted mapping has no key for its column.
C11_WhitespaceCellDropped ==
    last.kind = "props"
    => \A k \in columns \ DropCols :
          (last.row[k] /= NaN /\ Strip(last.row[k]) = EmptyStr)
          => k \notin DOMAIN last.props

\* C12: the extracted mapping has exactly the columns that are not consumed
\* and whose cell is neither '' nor missing, and none of its values is an
\* empty or null marker.
C12_ExactlyNonEmptyUnconsumed ==
    last.kind = "props"
    => /\ DOMAIN last.props =
            {k \in columns : k \notin DropCols /\ last.row[k] \notin {EmptyStr, NaN}}
       /\ \A k \in DOMAIN last.props : last.props[k] \notin {EmptyStr, NaN, PyNone}

\* A row with non-empty consumed cells and an empty property cell was
\* extracted to the empty mapping.
C12_Witness ==
    /\ last.kind = "props"
    /\ \E k \in columns \ DropCols : last.row[k] = EmptyStr
    /\ \E k \in columns \cap DropCols : last.row[k] \notin {EmptyStr, NaN}
    /\ last.props = EmptyDict

\* Whether the trimmed text of a str is delimited by {...} or [...].
Bracketed(v) ==
    LET s == Strip(v)
    IN  /\ s /= <<>>
        /\ \/ (s[1] = "{" /\ s[Len(s)] = "}")
           \/ (s[1] = "[" /\ s[Len(s)] = "]")

\* C15: the extractor always returns; a value that is not bracket-delimited
\* is kept as it is, a bracket-delimited one is either decoded or, when it
\* does not decode, kept as the original string.  "[1]" decodes, "[1," is not
\* tried and "[,]" fails: both stay strings.
C15_DecodeBestEffort ==
    last.kind = "props"
    => \A k \in DOMAIN last.props :
          LET v == last.row[k]
              w == last.props[k]
          IN  /\ ~Bracketed(v) => w = v
              /\ Bracketed(v) => (w = v \/ w = JsonLoads(Strip(v)))
              /\ (Bracketed(v) /\ ~JsonValid(Strip(v))) => w = v
              /\ v = <<"[", "1", "]">> => w = <<"json:", "[", "1", "]">>
              /\ v = <<"[", "1", ",">> => w = v
              /\ v = <<"[", ",", "]">> => w = v

\* A bracket-delimited cell that does not decode was extracted as itself.
C15_Witness ==
    /\ last.kind = "props"
    /\ \E k \in DOMAIN last.props :
          last.row[k] = <<"[", ",", "]">> /\ last.props[k] = last.row[k]

\* Whether c is the alias of lowest index that is a column of cols, or None
\* when no alias is one.
IsFirstAlias(c, aliases, cols) ==
    IF \A i \in 1..Len(aliases) : aliases[i] \notin cols
    THEN c = None
    ELSE \E i \in 1..Len(aliases) :
            /\ aliases[i] = c
            /\ c \in cols
            /\ \A j \in 1..(i - 1) : aliases[j] \notin cols

\* C13: each logical field resolves to the first alias of its list that is a
\* column of the table, whichever other aliases are columns too; a table
\* without an id column (or a relation table without a source or a target
\* column) raises, and a missing type or relation-type column resolves to None.
C13_FirstAliasWins ==
    /\ pc \in {"doc_rows", "draw_rows"}
       => /\ id_col /= None
          /\ IsFirstAlias(id_col, IdAliases, columns)
          /\ IsFirstAlias(type_col, TypeAliases, columns)
    /\ pc = "rel_rows"
       => /\ s_col /= None
          /\ t_col /= None
          /\ IsFirstAlias(s_col, SourceAliases, columns)
          /\ IsFirstAlias(t_col, TargetAliases, columns)
          /\ IsFirstAlias(rel_col, RelAliases, columns)
    /\ (table \in {"nodes_doc", "nodes_draw"}
        /\ IsFirstAlias(None, IdAliases, columns))
       => (pc = "raised" /\ error = <<NoIdColumn(table)>>)
    /\ (table = "relations"
        /\ (\/ IsFirstAlias(None, SourceAliases, columns)
            \/ IsFirstAlias(None, TargetAliases, columns)))
       => (pc = "raised" /\ error = <<NoSourceTarget>>)

\* A relation table with two source aliases, two target aliases and no
\* relation-type alias is being read, resolved to the earlier aliases.
C13_Witness ==
    /\ pc = "rel_rows"
    /\ columns = {"source", "from", "target", "to"}
    /\ s_col = "source"
    /\ t_col = "target"
    /\ rel_col = None

\* C14: a relation table with a source and a target column and none of the
\* relation-type aliases is read without error, and every edge built from it
\* has relation type RELATED_TO.
C14_DefaultRelationType ==
    (/\ table = "relations"
     /\ ~IsFirstAlias(None, SourceAliases, columns)
     /\ ~IsFirstAlias(None, TargetAliases, columns)
     /\ IsFirstAlias(None, RelAliases, columns))
    => /\ pc \in {"rel_rows", "returned", "exported"}
       /\ error = <<>>
       /\ Len(edges) > 0 <=> relRows > 0
       /\ \A i \in 1..Len(edges) :
             /\ "relationship" \in DOMAIN edges[i].attrs
             /\ edges[i].attrs["relationship"] = RELATED_TO

\* build_graph returned a graph with an edge from such a table.
C14_Witness ==
    /\ pc = "returned"
    /\ table = "relations"
    /\ rel_col = None
    /\ Len(edges) > 0
    /\ edges[1].attrs["relationship"] = RELATED_TO

\* C17: export_pyvis leaves the graph as build_graph returned it: the same
\* entities with the same types, properties and placeholder flags, the same
\* relations, whether it returns early on an empty graph or writes a network.
C17_ExportLeavesGraph ==
    [][pc = "returned" /\ pc' = "exported"
       => /\ nodes' = nodes
          /\ edges' = edges
          /\ result' = result
          /\ result = <<[nodes |-> nodes, edges |-> edges]>>
          /\ last'.written <=> Len(nodes) > 0]_vars

\* A network was written for a graph that has a typed entity and a relation.
C17_Witness ==
    /\ pc = "exported"
    /\ last.written
    /\ Len(edges) > 0
    /\ \E i \in 1..Len(nodes) : "node_type" \in DOMAIN nodes[i].attrs

\* The export returned early on a graph of no entities.
C17_WitnessEmpty ==
    /\ pc = "exported"
    /\ ~last.written
    /\ Len(nodes) = 0

\* The markers of an empty or absent value.
EmptyMarkers == {EmptyStr, NaN, PyNone}

\* C18 (as claimed): a node row whose type cell is not empty leaves its entity with a type that is the
\* row's type cell or the type the entity had before the row; no property
\* column sets it, a column named node_type beside the type column included.
C18_TypeOnlyFromTypeColumn ==
    [][(nodeRows' = nodeRows + 1 /\ NodeTypeOf(last'.row, type_col) \notin EmptyMarkers)
       => LET n == Str(last'.row[id_col])
              new == NodeAttrs(nodes', n)
              before == IF HasNode(nodes, n) /\ "node_type" \in DOMAIN NodeAttrs(nodes, n)
                        THEN {NodeAttrs(nodes, n)["node_type"]}
                        ELSE {}
          IN  "node_type" \in DOMAIN new
              => new["node_type"] \in before \cup {NodeTypeOf(last'.row, type_col)}]_vars

\* C19 (as claimed): after a relation row whose relation-type cell is not
\* empty its edge's relation type is that cell, or RELATED_TO without a
\* relation-type column; no property column overwrites it, a column named
\* relationship beside relationship_type included.
C19_RelTypeOnlyFromRelColumn ==
    (last.kind = "rel" /\ RelTypeOf(last.row, rel_col) \notin EmptyMarkers)
    => LET e == EdgeAttrs(edges, Str(last.row[s_col]), Str(last.row[t_col]))
       IN  /\ "relationship" \in DOMAIN e
           /\ e["relationship"] = RelTypeOf(last.row, rel_col)

\* C20: no step of the assembly removes an entity or a key of an entity, and
\* none replaces a key's value with an empty or absent marker.
C20_KeysOnlyGrow ==
    [][\A i \in 1..Len(nodes) :
          /\ Len(nodes') >= i
          /\ nodes'[i].id = nodes[i].id
          /\ \A k \in DOMAIN nodes[i].attrs :
                /\ k \in DOMAIN nodes'[i].attrs
                /\ \/ nodes'[i].attrs[k] = nodes[i].attrs[k]
                   \/ nodes'[i].attrs[k] \notin EmptyMarkers]_vars

\* The second node row of an id has an empty cell under a key the first row
\* set, and the entity still has the first row's value.
C20_Witness ==
    /\ nodeRows = 2
    /\ Len(nodes) = 1
    /\ last.kind = "node"
    /\ "name" \in DOMAIN last.row
    /\ last.row["name"] = EmptyStr
    /\ "name" \in DOMAIN nodes[1].attrs
    /\ nodes[1].attrs["name"] = <<"x">>

====
